---- MODULE Spec2Model ----
(***************************************************************************)
(* Gridly / gridava: hexagonal grid coordinates, vertices and shapes.      *)
(*                                                                         *)
(* Six specifications share the module's variables:                      *)
(*   SpecWorld  - HexGrid::hex_to_world / HexGrid::world_to_hex            *)
(*   SpecPoint  - HexGrid::world_to_hex of points around a cell's centre   *)
(*   SpecVertex - Vertex::adjacent_hexes / adjacent_vertices /             *)
(*                adjacent_edges / distance                                *)
(*   SpecFar    - the same methods on vertices far apart                   *)
(*   SpecDirection - VertexDirection::from(i32), i32::from(VertexDirection) *)
(*   Spec       - HexGrid::apply_shape / HexGrid::extract_shape            *)
(***************************************************************************)
EXTENDS Integers, Sequences, FiniteSets, TLC

VARIABLES
    orientation,  \* HexGrid.orientation
    hex_size,     \* HexGrid.hex_size, a positive rational [n, d]
    tiles,        \* HexGrid.tiles    : Axial  -> T   (a finite map)
    vertices,     \* HexGrid.vertices : Vertex -> V
    edges,        \* HexGrid.edges    : Edge   -> E
    shape,        \* the caller's HexShape: [hexes, transform]
    op,           \* the operation that produced this state
    pre,          \* the grid's tiles and the shape's hexes before that operation
    made,         \* the shape's hexes as its constructor left them
    applied,      \* the shape last handed to apply_shape (grid unchanged since)
    calls,        \* number of operations so far
    prior,        \* the operation before that one, and the tiles before it
    coord,        \* SpecWorld: the cell handed to hex_to_world
    world,        \* SpecWorld: the world point it returned
    back,         \* SpecWorld: the cell world_to_hex returned for it
    va,           \* SpecVertex: the vertex the methods are called on
    vb,           \* SpecVertex: the argument of distance
    ret,          \* SpecVertex: the value the last method returned
    index,        \* SpecDirection: the i32 handed to VertexDirection::from
    vd,           \* SpecDirection: the VertexDirection it returned
    num           \* SpecDirection: i32::from of that direction

vars == <<orientation, hex_size, tiles, vertices, edges, shape, op, pre, made,
          applied, calls, prior, coord, world, back, va, vb, ret, index, vd, num>>

gridVars == <<orientation, hex_size, tiles, vertices, edges>>
shapeVars == <<shape, pre, made, applied, calls, prior>>
worldVars == <<coord, world, back>>
directionVars == <<index, vd, num>>
vertexVars == <<va, vb, ret, directionVars>>

\* Option<T>: None, or Some(v)
None == <<>>
Some(v) == <<v>>

(***************************************************************************)
(* Bounds of the model.                                                    *)
(***************************************************************************)
\* cells handed to hex_to_world have |q|, |r| <= MaxCoord
MaxCoord == 3
\* vertices have |q|, |r| <= MaxVertex
MaxVertex == 2
\* tile payloads are 0 .. MaxPayload (0 is the tests' placeholder payload)
MaxPayload == 1
\* operations per run of the shape specification
MaxCalls == 3
\* how many cells from the origin the far vertices of SpecFar lie
FarCoord == 99
\* the i32 values handed to VertexDirection::from are -MaxIndex .. MaxIndex
\* and the two ends of i32
MaxIndex == 60
\* SpecPoint: the cells have |q|, |r| <= MaxPointCoord, and the points tried
\* around a centre are Mesh steps from it to the hexagon's side
MaxPointCoord == 1
Mesh == 3

(***************************************************************************)
(* Coordinates.                                                            *)
(***************************************************************************)
axial(q, r) == [q |-> q, r |-> r]

Abs(n) == IF n < 0 THEN -n ELSE n

RECURSIVE Gcd(_, _)
Gcd(m, n) == IF n = 0 THEN m ELSE Gcd(n, m % n)

(***************************************************************************)
(* f64 arithmetic.  Every value the two conversions compute lies in the    *)
(* field Q(sqrt 3), so a number is kept exactly as (a + b*sqrt 3) / d with *)
(* integers a, b and d > 0, in lowest terms.                               *)
(***************************************************************************)
Num(a, b, d) ==
    LET g == Gcd(Gcd(Abs(a), Abs(b)), Abs(d))
        s == IF d < 0 THEN -1 ELSE 1
    IN  [a |-> s * (a \div g), b |-> s * (b \div g), d |-> s * (d \div g)]

FromInt(n) == [a |-> n, b |-> 0, d |-> 1]

Rat(n, d) == Num(n, 0, d)

Neg(x) == [a |-> -x.a, b |-> -x.b, d |-> x.d]

Add(x, y) == Num(x.a * y.d + y.a * x.d, x.b * y.d + y.b * x.d, x.d * y.d)

Sub(x, y) == Add(x, Neg(y))

Mul(x, y) == Num(x.a * y.a + 3 * x.b * y.b, x.a * y.b + x.b * y.a, x.d * y.d)

\* 1 / y = d * (a - b*sqrt 3) / (a^2 - 3 b^2); the norm is never 0 for y # 0
Inv(y) == Num(y.d * y.a, -(y.d * y.b), y.a * y.a - 3 * y.b * y.b)

Div(x, y) == Mul(x, Inv(y))

\* m <= b * sqrt 3, for integers m and b
LeqRoot3(m, b) ==
    IF b >= 0 THEN m <= 0 \/ m * m <= 3 * b * b
              ELSE m <= 0 /\ m * m >= 3 * b * b

IsInteger(x) == x.b = 0 /\ x.d = 1

\* f64::floor in exact arithmetic: the largest n with n <= (a + b*sqrt 3) / d
Floor(x) ==
    LET lo == ((x.a - 2 * Abs(x.b)) \div x.d) - 1
        hi == ((x.a + 2 * Abs(x.b)) \div x.d) + 1
    IN  CHOOSE n \in lo..hi :
            /\ LeqRoot3(n * x.d - x.a, x.b)
            /\ ~LeqRoot3((n + 1) * x.d - x.a, x.b)

\* What f64::floor can return for a computed value whose exact value is x.
\* The products with SQRT_3 are rounded, so a value that is exactly an
\* integer n may be computed a few ulps below n and then floors to n - 1.
floor(x) == IF IsInteger(x) THEN {x.a - 1, x.a} ELSE {Floor(x)}

\* pub const SQRT_3: f64
SQRT_3 == [a |-> 0, b |-> 1, d |-> 1]

PointyTop == "PointyTop"
FlatTop == "FlatTop"
HexOrientation == {FlatTop, PointyTop}

\* HexGrid::default().hex_size
DefaultHexSize == 32

\* the cell sizes the conversions are run at: 1/2, 1, 10 and the default
HexSizes == {Rat(1, 2), FromInt(1), FromInt(10), FromInt(DefaultHexSize)}

(***************************************************************************)
(* HexGrid::hex_to_world                                                   *)
(***************************************************************************)
\* mutation: the formulas of the two orientations are exchanged
hex_to_world_transposed(o, size, c) ==
    LET q == FromInt(c.q)
        r == FromInt(c.r)
    IN  IF o = FlatTop
        THEN <<Mul(size, Add(Mul(SQRT_3, q), Mul(Div(SQRT_3, FromInt(2)), r))),
               Mul(size, Mul(Rat(3, 2), r))>>
        ELSE <<Mul(size, Mul(Rat(3, 2), q)),
               Mul(size, Add(Mul(Div(SQRT_3, FromInt(2)), q), Mul(SQRT_3, r)))>>

hex_to_world(o, size, c) ==
    LET q == FromInt(c.q)
        r == FromInt(c.r)
    IN  IF o = PointyTop
        THEN <<Mul(size, Add(Mul(SQRT_3, q), Mul(Div(SQRT_3, FromInt(2)), r))),
               Mul(size, Mul(Rat(3, 2), r))>>
        ELSE <<Mul(size, Mul(Rat(3, 2), q)),
               Mul(size, Add(Mul(Div(SQRT_3, FromInt(2)), q), Mul(SQRT_3, r)))>>

(***************************************************************************)
(* HexGrid::world_to_hex: the set of cells the f64 evaluation can return.  *)
(***************************************************************************)
\* mutation: naive rounding; each fractional axial coordinate is rounded to
\* the nearest integer on its own
world_to_hex_rounded(o, size, worldspace) ==
    LET u == Div(worldspace[1], Mul(SQRT_3, size))
        v == Neg(Div(worldspace[2], Mul(SQRT_3, size)))
        third == Num(0, 1, 3)
        qf == IF o = PointyTop THEN Add(u, Mul(third, v))
                               ELSE Mul(Num(0, 2, 3), u)
        rf == IF o = PointyTop THEN Neg(Mul(Num(0, 2, 3), v))
                               ELSE Neg(Add(v, Mul(third, u)))
    IN  {axial(Floor(Add(qf, Rat(1, 2))), Floor(Add(rf, Rat(1, 2))))}

\* mutation: the r coordinate is not negated
world_to_hex_unnegated(o, size, worldspace) ==
    LET u == Div(worldspace[1], Mul(SQRT_3, size))
        v == Neg(Div(worldspace[2], Mul(SQRT_3, size)))
        x == IF o = PointyTop THEN u ELSE v
        y == IF o = PointyTop THEN v ELSE u
        t == Add(Mul(SQRT_3, y), FromInt(1))
        temp2 == Sub(t, x)
        temp3 == Add(Mul(FromInt(2), x), FromInt(1))
    IN  UNION { UNION { { IF o = PointyTop THEN axial(f1, f2) ELSE axial(f2, f1)
                          : f2 \in floor(Div(Add(FromInt(temp1), temp2), FromInt(3))) }
                        : f1 \in floor(Div(Add(FromInt(temp1), temp3), FromInt(3))) }
                : temp1 \in floor(Add(t, x)) }

world_to_hex(o, size, worldspace) ==
    LET u == Div(worldspace[1], Mul(SQRT_3, size))
        v == Neg(Div(worldspace[2], Mul(SQRT_3, size)))
        x == IF o = PointyTop THEN u ELSE v
        y == IF o = PointyTop THEN v ELSE u
        t == Add(Mul(SQRT_3, y), FromInt(1))
        temp2 == Sub(t, x)
        temp3 == Add(Mul(FromInt(2), x), FromInt(1))
    IN  UNION { UNION { { IF o = PointyTop THEN axial(f1, -f2) ELSE axial(f2, -f1)
                          : f2 \in floor(Div(Add(FromInt(temp1), temp2), FromInt(3))) }
                        : f1 \in floor(Div(Add(FromInt(temp1), temp3), FromInt(3))) }
                : temp1 \in floor(Add(t, x)) }

(***************************************************************************)
(* Vertices and edges.                                                     *)
(***************************************************************************)
Up == "Up"
Down == "Down"
VertexSpin == {Up, Down}

vertex(q, r, sp) == [q |-> q, r |-> r, spin |-> sp]

West == "West"
NorthEast == "NorthEast"
NorthWest == "NorthWest"
\* the three canonical directions an Edge is keyed by
EdgeDirection == {West, NorthEast, NorthWest}

edge(q, r, dir) == [q |-> q, r |-> r, dir |-> dir]

(***************************************************************************)
(* VertexDirection and its conversions from and to i32.                    *)
(***************************************************************************)
\* enum VertexDirection, in declaration order
VertexDirection == <<"Up", "UpRight", "DownRight", "Down", "DownLeft", "UpLeft">>

\* the `_ => unreachable!()` arm: a panic
Unreachable == "unreachable"

I32_MAX == 2147483647
I32_MIN == -I32_MAX - 1

\* Rust's a % b for b > 0: the remainder takes the sign of a
Rem(a, b) == IF a >= 0 \/ a % b = 0 THEN a % b ELSE (a % b) - b

\* mutation: the plain remainder, which is negative for negative values
rem_euclid_truncated(a, rhs) == Rem(a, rhs)

\* i32::rem_euclid: r = a % rhs; if r < 0 { r + |rhs| } else { r }
rem_euclid(a, rhs) ==
    LET r == Rem(a, rhs)
    IN  IF r < 0 THEN r + Abs(rhs) ELSE r

\* impl From<i32> for VertexDirection
VertexDirection_from(i) ==
    LET k == rem_euclid(i, 6)
    IN  CASE k = 0 -> "Up"
          [] k = 1 -> "UpRight"
          [] k = 2 -> "DownRight"
          [] k = 3 -> "Down"
          [] k = 4 -> "DownLeft"
          [] k = 5 -> "UpLeft"
          [] OTHER -> Unreachable

\* impl From<VertexDirection> for i32
i32_from(d) ==
    CASE d = "Up" -> 0
      [] d = "UpRight" -> 1
      [] d = "DownRight" -> 2
      [] d = "Down" -> 3
      [] d = "DownLeft" -> 4
      [] d = "UpLeft" -> 5

(***************************************************************************)
(* Vertex::adjacent_hexes                                                  *)
(***************************************************************************)
\* mutation: the third cell is taken on the wrong side
adjacent_hexes_mirrored(v) ==
    IF v.spin = Up
    THEN <<axial(v.q, v.r), axial(v.q, v.r - 1), axial(v.q - 1, v.r - 1)>>
    ELSE <<axial(v.q, v.r), axial(v.q, v.r + 1), axial(v.q + 1, v.r + 1)>>

adjacent_hexes(v) ==
    IF v.spin = Up
    THEN <<axial(v.q, v.r), axial(v.q, v.r - 1), axial(v.q + 1, v.r - 1)>>
    ELSE <<axial(v.q, v.r), axial(v.q, v.r + 1), axial(v.q - 1, v.r + 1)>>

(***************************************************************************)
(* Vertex::adjacent_vertices                                               *)
(***************************************************************************)
\* mutation: the third neighbour is taken one row short
adjacent_vertices_same_row(v) ==
    IF v.spin = Up
    THEN <<vertex(v.q + 1, v.r - 1, Down),
           vertex(v.q, v.r - 1, Down),
           vertex(v.q + 1, v.r - 1, Down)>>
    ELSE <<vertex(v.q, v.r + 1, Up),
           vertex(v.q - 1, v.r + 1, Up),
           vertex(v.q - 1, v.r + 1, Up)>>

\* mutation: the Down branch repeats the offsets of the Up branch
adjacent_vertices_unmirrored(v) ==
    <<vertex(v.q + 1, v.r - 1, IF v.spin = Up THEN Down ELSE Up),
      vertex(v.q, v.r - 1, IF v.spin = Up THEN Down ELSE Up),
      vertex(v.q + 1, v.r - 2, IF v.spin = Up THEN Down ELSE Up)>>

adjacent_vertices(v) ==
    IF v.spin = Up
    THEN <<vertex(v.q + 1, v.r - 1, Down),
           vertex(v.q, v.r - 1, Down),
           vertex(v.q + 1, v.r - 2, Down)>>
    ELSE <<vertex(v.q, v.r + 1, Up),
           vertex(v.q - 1, v.r + 2, Up),
           vertex(v.q - 1, v.r + 1, Up)>>

(***************************************************************************)
(* Vertex::adjacent_edges                                                  *)
(***************************************************************************)
\* mutation: an Up vertex takes the West edge of its own cell
adjacent_edges_own_cell(v) ==
    IF v.spin = Up
    THEN <<edge(v.q, v.r, West),
           edge(v.q, v.r, NorthEast),
           edge(v.q, v.r, NorthWest)>>
    ELSE <<edge(v.q, v.r + 1, NorthWest),
           edge(v.q, v.r + 1, West),
           edge(v.q - 1, v.r + 1, NorthEast)>>

adjacent_edges(v) ==
    IF v.spin = Up
    THEN <<edge(v.q + 1, v.r - 1, West),
           edge(v.q, v.r, NorthEast),
           edge(v.q, v.r, NorthWest)>>
    ELSE <<edge(v.q, v.r + 1, NorthWest),
           edge(v.q, v.r + 1, West),
           edge(v.q - 1, v.r + 1, NorthEast)>>

(***************************************************************************)
(* Axial::distance and Axial::direction (hex/coordinate.rs).               *)
(***************************************************************************)
\* cube distance (|dq| + |dr| + |dq + dr|) / 2
axial_distance(a, b) ==
    LET dq == a.q - b.q
        dr == a.r - b.r
    IN  (Abs(dq) + Abs(dr) + Abs(dq + dr)) \div 2

\* The angle, in degrees in [0, 360), of the vector from a to b in the
\* plane where cell (q, r) sits at (sqrt 3 * (q + r/2), 3/2 * r).  The angle
\* is kept as what its two uses read: sixth = floor(dir / 60), and whether
\* dir.round() is a multiple of 60.  With the vector written m*e_k + n*e_k+1
\* over the two axes bounding its sextant (m > 0, n >= 0), its angle past
\* axis k has tangent n*sqrt 3 / (2m + n); sqrt 3 / tan(0.5 deg) = 198.47336...
direction(a, b) ==
    LET dq == b.q - a.q
        dr == b.r - a.r
        k  == CASE dr >= 0 /\ dq > 0       -> 0
                [] dq <= 0 /\ dq + dr > 0  -> 1
                [] dq + dr <= 0 /\ dr > 0  -> 2
                [] dr <= 0 /\ dq < 0       -> 3
                [] dq >= 0 /\ dq + dr < 0  -> 4
                [] OTHER                   -> 5
        m  == CASE k = 0 -> dq        [] k = 1 -> dq + dr   [] k = 2 -> dr
                [] k = 3 -> -dq       [] k = 4 -> -dq - dr  [] OTHER -> -dr
        n  == CASE k = 0 -> dr        [] k = 1 -> -dq       [] k = 2 -> -dq - dr
                [] k = 3 -> -dr       [] k = 4 -> dq        [] OTHER -> dq + dr
    IN  [sixth |-> k,
         round60 |-> \/ 100000 * (2 * m + n) > 19847336 * n
                     \/ 100000 * (2 * n + m) > 19847336 * m]

(***************************************************************************)
(* Vertex::distance                                                        *)
(***************************************************************************)
\* const PARITY_ADJUSTMENTS: [[[i32; 6]; 3]; 2]
PARITY_ADJUSTMENTS ==
    << \* On Axis
       << <<0, 0, 0, 0, 0, 0>>,       \* Same
          <<1, 3, 3, 1, -1, -1>>,     \* NS
          <<1, -1, -1, 1, 3, 3>> >>,  \* SN
       \* Off Axis
       << <<0, 0, 0, 0, 0, 0>>,       \* Same
          <<1, 3, 1, -1, -1, -1>>,    \* NS
          <<-1, -1, -1, 1, 3, 1>> >> >>

\* mutation: the same-coordinate early return is dropped
distance_without_same_cell(self, b) ==
    LET dist == axial_distance(axial(self.q, self.r), axial(b.q, b.r))
        dir == direction(axial(self.q, self.r), axial(b.q, b.r))
        parity == IF self.spin = b.spin THEN 0
                  ELSE IF self.spin = Up /\ b.spin = Down THEN 1 ELSE 2
        on_axis == IF dir.round60 THEN 0 ELSE 1
    IN  2 * dist + PARITY_ADJUSTMENTS[on_axis + 1][parity + 1][(dir.sixth % 6) + 1]

\* mutation: every pair of opposite spins is looked up in the NS row
distance_always_ns(self, b) ==
    IF self.q = b.q /\ self.r = b.r
    THEN IF self.spin = b.spin THEN 0 ELSE 3
    ELSE LET dist == axial_distance(axial(self.q, self.r), axial(b.q, b.r))
             dir == direction(axial(self.q, self.r), axial(b.q, b.r))
             parity == IF self.spin = b.spin THEN 0 ELSE 1
             on_axis == IF dir.round60 THEN 0 ELSE 1
         IN  2 * dist + PARITY_ADJUSTMENTS[on_axis + 1][parity + 1][(dir.sixth % 6) + 1]

distance(self, b) ==
    IF self.q = b.q /\ self.r = b.r
    THEN IF self.spin = b.spin THEN 0 ELSE 3
    ELSE LET dist == axial_distance(axial(self.q, self.r), axial(b.q, b.r))
             dir == direction(axial(self.q, self.r), axial(b.q, b.r))
             parity == IF self.spin = b.spin THEN 0
                       ELSE IF self.spin = Up /\ b.spin = Down THEN 1 ELSE 2
             sector == dir.sixth % 6
             on_axis == IF dir.round60 THEN 0 ELSE 1
             base_adjustment == PARITY_ADJUSTMENTS[on_axis + 1][parity + 1][sector + 1]
         IN  2 * dist + base_adjustment

\* The length of a shortest path from a to b in the graph that joins every
\* vertex to its three adjacent_vertices(): breadth-first search from a.
Range(t) == {t[i] : i \in DOMAIN t}

RECURSIVE Search(_, _, _, _)
Search(frontier, seen, b, k) ==
    IF b \in frontier THEN k
    ELSE LET next == UNION {Range(adjacent_vertices(v)) : v \in frontier} \ seen
         IN  Search(next, seen \cup next, b, k + 1)

ShortestPath(a, b) == Search({a}, {a}, b, 0)

(***************************************************************************)
(* Transform and Axial::apply_transform (hex/coordinate.rs): a rotation by *)
(* a multiple of 60 degrees about the origin, then a translation.          *)
(***************************************************************************)
transform(q, r, rot) == [translation |-> axial(q, r), rotation |-> rot]

RECURSIVE rotate(_, _)
rotate(c, steps) ==
    IF steps = 0 THEN c ELSE rotate(axial(-c.r, c.q + c.r), steps - 1)

apply_transform(c, t) ==
    LET turned == rotate(c, t.rotation % 6)
    IN  axial(turned.q + t.translation.q, turned.r + t.translation.r)

(***************************************************************************)
(* HexShape (hex/shape.rs): a 2-D array of Option<T> and a transform.      *)
(***************************************************************************)
\* the size handed to HexShape::make_rhombus by the tests
ShapeSize == 1

\* the array's indices, and indexed_iter's order over them (row-major)
Slots == (0..ShapeSize) \X (0..ShapeSize)

SlotOrder ==
    [k \in 1..((ShapeSize + 1) * (ShapeSize + 1)) |->
        <<(k - 1) \div (ShapeSize + 1), (k - 1) % (ShapeSize + 1)>>]

Payloads == 0..MaxPayload

\* every array a constructor can leave: any pattern, any factory
Hexes == [Slots -> {None} \cup {Some(p) : p \in Payloads}]

\* the placements the shapes are built with
Transforms ==
    {transform(0, 0, 0), transform(1, 0, 0), transform(0, 0, 1), transform(1, 1, 3)}

\* a fresh shape of the same pattern, every populated slot from the factory || 0
make_same_pattern(hexes) == [s \in Slots |-> IF hexes[s] # None THEN Some(0) ELSE None]

Populated(hexes) == {s \in Slots : hexes[s] # None}

\* the global coordinate of local slot s: axial!(i, j).apply_transform(t)
SlotCoord(s, t) == apply_transform(axial(s[1], s[2]), t)

(***************************************************************************)
(* The grid as one value.                                                  *)
(***************************************************************************)
Grid ==
    [orientation |-> orientation, hex_size |-> hex_size, tiles |-> tiles,
     vertices |-> vertices, edges |-> edges]

\* HashMap::insert
insert(map, key, value) ==
    [x \in DOMAIN map \cup {key} |-> IF x = key THEN value ELSE map[x]]

\* HashMap::get(..).cloned()
get(map, key) == IF key \in DOMAIN map THEN Some(map[key]) ELSE None

remove(map, key) == [x \in DOMAIN map \ {key} |-> map[x]]

(***************************************************************************)
(* HexGrid::apply_shape: the grid after the call.                          *)
(***************************************************************************)
RECURSIVE apply_from(_, _, _)
apply_from(map, sh, k) ==
    IF k > Len(SlotOrder) THEN map
    ELSE LET ele == SlotOrder[k]
         IN  IF sh.hexes[ele] # None
             THEN apply_from(insert(map, SlotCoord(ele, sh.transform), sh.hexes[ele][1]),
                             sh, k + 1)
             ELSE apply_from(map, sh, k + 1)

RECURSIVE apply_local_from(_, _, _)
apply_local_from(map, sh, k) ==
    IF k > Len(SlotOrder) THEN map
    ELSE LET ele == SlotOrder[k]
         IN  IF sh.hexes[ele] # None
             THEN apply_local_from(insert(map, axial(ele[1], ele[2]), sh.hexes[ele][1]),
                                   sh, k + 1)
             ELSE apply_local_from(map, sh, k + 1)

\* mutation: the transform is not applied
apply_shape_untransformed(grid, sh) ==
    [grid EXCEPT !.tiles = apply_local_from(grid.tiles, sh, 1)]

RECURSIVE apply_clearing_from(_, _, _)
apply_clearing_from(map, sh, k) ==
    IF k > Len(SlotOrder) THEN map
    ELSE LET ele == SlotOrder[k]
         IN  IF sh.hexes[ele] # None
             THEN apply_clearing_from(
                      insert(map, SlotCoord(ele, sh.transform), sh.hexes[ele][1]), sh, k + 1)
             ELSE apply_clearing_from(remove(map, SlotCoord(ele, sh.transform)), sh, k + 1)

\* mutation: an empty slot clears the grid's entry
apply_shape_clearing(grid, sh) ==
    [grid EXCEPT !.tiles = apply_clearing_from(grid.tiles, sh, 1)]

apply_shape(grid, sh) ==
    [grid EXCEPT !.tiles = apply_from(grid.tiles, sh, 1)]

(***************************************************************************)
(* HexGrid::extract_shape: the shape after the call.                       *)
(***************************************************************************)
\* mutation: a slot keeps its payload where the grid has no entry
extract_shape_keeping(grid, sh) ==
    [sh EXCEPT !.hexes =
        [ele \in Slots |->
            IF sh.hexes[ele] # None /\ SlotCoord(ele, sh.transform) \in DOMAIN grid.tiles
            THEN Some(grid.tiles[SlotCoord(ele, sh.transform)])
            ELSE sh.hexes[ele]]]

\* mutation: every slot is read, populated or not
extract_shape_unmasked(grid, sh) ==
    [sh EXCEPT !.hexes =
        [ele \in Slots |-> get(grid.tiles, SlotCoord(ele, sh.transform))]]

\* mutation: the transform is not applied
extract_shape_untransformed(grid, sh) ==
    [sh EXCEPT !.hexes =
        [ele \in Slots |->
            IF sh.hexes[ele] # None
            THEN get(grid.tiles, axial(ele[1], ele[2]))
            ELSE sh.hexes[ele]]]

extract_shape(grid, sh) ==
    LET t == sh.transform
    IN  [sh EXCEPT !.hexes =
            [ele \in Slots |->
                IF sh.hexes[ele] # None
                THEN get(grid.tiles, SlotCoord(ele, t))
                ELSE sh.hexes[ele]]]

(***************************************************************************)
(* Values of the variables a specification does not use.                   *)
(***************************************************************************)
EmptyMap == [x \in {} |-> 0]

IdleGrid ==
    /\ tiles = EmptyMap
    /\ vertices = EmptyMap
    /\ edges = EmptyMap

IdleShape ==
    /\ shape = [hexes |-> [s \in Slots |-> None], transform |-> transform(0, 0, 0)]
    /\ pre = None
    /\ made = [s \in Slots |-> None]
    /\ applied = None
    /\ calls = 0
    /\ prior = None

IdleWorld ==
    /\ coord = axial(0, 0)
    /\ world = <<FromInt(0), FromInt(0)>>
    /\ back = axial(0, 0)

IdleDirection ==
    /\ index = 0
    /\ vd = VertexDirection[1]
    /\ num = 0

IdleVertex ==
    /\ va = vertex(0, 0, Up)
    /\ vb = vertex(0, 0, Up)
    /\ ret = [self |-> None, other |-> None]
    /\ IdleDirection

(***************************************************************************)
(* Spec: a grid, a shape, and calls of apply_shape and extract_shape.      *)
(***************************************************************************)
\* the cells that may already hold a tile when the run starts
PresetKeys == {axial(0, 0), axial(1, 1)}

PresetTiles == UNION {[keys -> Payloads] : keys \in SUBSET PresetKeys}

Init ==
    /\ orientation = PointyTop
    /\ hex_size = FromInt(DefaultHexSize)
    /\ tiles \in PresetTiles
    /\ vertices = [v \in {vertex(0, 0, Up)} |-> 0]
    /\ edges = [e \in {edge(0, 0, West)} |-> 0]
    /\ shape \in [hexes : Hexes, transform : Transforms]
    /\ made = shape.hexes
    /\ op = "new"
    /\ pre = [grid |-> Grid, shape |-> shape]
    /\ applied = None
    /\ calls = 0
    /\ prior = None
    /\ IdleWorld
    /\ IdleVertex

\* grid.apply_shape(&shape)
ApplyShape ==
    /\ calls < MaxCalls
    /\ LET after == apply_shape(Grid, shape)
       IN  /\ orientation' = after.orientation
           /\ hex_size' = after.hex_size
           /\ tiles' = after.tiles
           /\ vertices' = after.vertices
           /\ edges' = after.edges
    /\ op' = "apply_shape"
    /\ pre' = [grid |-> Grid, shape |-> shape]
    /\ applied' = Some(shape)
    /\ calls' = calls + 1
    /\ prior' = [op |-> op, tiles |-> pre.grid.tiles]
    /\ UNCHANGED <<shape, made, worldVars, vertexVars>>

\* grid.extract_shape(&mut shape)
ExtractShape ==
    /\ calls < MaxCalls
    /\ shape' = extract_shape(Grid, shape)
    /\ op' = "extract_shape"
    /\ pre' = [grid |-> Grid, shape |-> shape]
    /\ calls' = calls + 1
    /\ prior' = [op |-> op, tiles |-> pre.grid.tiles]
    /\ UNCHANGED <<gridVars, made, applied, worldVars, vertexVars>>

\* the caller builds a fresh shape of the same pattern and placement, with
\* the placeholder payload, as tests::extract_shape does
MakeShape ==
    /\ calls < MaxCalls
    /\ shape' = [hexes |-> make_same_pattern(made), transform |-> shape.transform]
    /\ made' = make_same_pattern(made)
    /\ op' = "make"
    /\ pre' = [grid |-> Grid, shape |-> shape]
    /\ calls' = calls + 1
    /\ prior' = [op |-> op, tiles |-> pre.grid.tiles]
    /\ UNCHANGED <<gridVars, applied, worldVars, vertexVars>>

Next == ApplyShape \/ ExtractShape \/ MakeShape

Spec == Init /\ [][Next]_vars

(***************************************************************************)
(* SpecWorld: hex_to_world of a cell, then world_to_hex of the result.     *)
(***************************************************************************)
Cells == {axial(q, r) : q \in -MaxCoord..MaxCoord, r \in -MaxCoord..MaxCoord}

\* the two far cells of tests::hex_to_world and tests::two_way_identity
TestCells == {axial(0, -15), axial(15, 0)}

InitWorld ==
    /\ orientation \in HexOrientation
    /\ hex_size \in HexSizes
    /\ coord \in Cells \cup TestCells
    /\ world = <<FromInt(0), FromInt(0)>>
    /\ back = axial(0, 0)
    /\ op = "new"
    /\ IdleGrid
    /\ IdleShape
    /\ IdleVertex

\* grid.hex_to_world(coord)
HexToWorld ==
    /\ world' = hex_to_world(orientation, hex_size, coord)
    /\ op' = "hex_to_world"
    /\ UNCHANGED <<coord, back, gridVars, shapeVars, vertexVars>>

\* grid.world_to_hex(world)
WorldToHex ==
    /\ op \in {"hex_to_world", "point"}
    /\ back' \in world_to_hex(orientation, hex_size, world)
    /\ op' = "world_to_hex"
    /\ UNCHANGED <<coord, world, gridVars, shapeVars, vertexVars>>

NextWorld == HexToWorld \/ WorldToHex

SpecWorld == InitWorld /\ [][NextWorld]_vars

(***************************************************************************)
(* SpecPoint: world_to_hex of a point of a mesh laid over the bounding box *)
(* of a cell's hexagon.  In units of the cell size the hexagon is sqrt 3   *)
(* wide and 2 high (PointyTop; exchanged for FlatTop); the mesh step is    *)
(* sqrt 3 / (2 Mesh) across and 1 / (2 Mesh) along, so that the corners    *)
(* and the centre are mesh points.                                         *)
(***************************************************************************)
PointCells ==
    {axial(q, r) : q \in -MaxPointCoord..MaxPointCoord,
                   r \in -MaxPointCoord..MaxPointCoord}

Offsets == (-Mesh..Mesh) \X (-2 * Mesh..2 * Mesh)

PointAt(o, size, c, off) ==
    LET centre == hex_to_world(o, size, c)
        across == Mul(size, Num(0, off[1], 2 * Mesh))
        along == Mul(size, Rat(off[2], 2 * Mesh))
    IN  IF o = PointyTop
        THEN <<Add(centre[1], across), Add(centre[2], along)>>
        ELSE <<Add(centre[1], along), Add(centre[2], across)>>

InitPoint ==
    /\ orientation \in HexOrientation
    /\ hex_size \in HexSizes
    /\ coord \in PointCells
    /\ world = <<FromInt(0), FromInt(0)>>
    /\ back = axial(0, 0)
    /\ op = "new"
    /\ IdleGrid
    /\ IdleShape
    /\ IdleVertex

\* the caller picks a world point around the centre of coord
PickPoint ==
    /\ op = "new"
    /\ \E off \in Offsets : world' = PointAt(orientation, hex_size, coord, off)
    /\ op' = "point"
    /\ UNCHANGED <<coord, back, gridVars, shapeVars, vertexVars>>

NextPoint == PickPoint \/ WorldToHex

SpecPoint == InitPoint /\ [][NextPoint]_vars

(***************************************************************************)
(* SpecVertex: the methods of Vertex, called on a vertex va and on a       *)
(* second one vb; ret holds both results.                                  *)
(***************************************************************************)
Vertexes ==
    {vertex(q, r, sp) : q \in -MaxVertex..MaxVertex, r \in -MaxVertex..MaxVertex,
                        sp \in VertexSpin}

InitVertex ==
    /\ orientation = PointyTop
    /\ hex_size = FromInt(DefaultHexSize)
    /\ va \in Vertexes
    /\ vb \in Vertexes
    /\ ret = [self |-> None, other |-> None]
    /\ IdleDirection
    /\ op = "new"
    /\ IdleGrid
    /\ IdleShape
    /\ IdleWorld

\* SpecFar starts the same methods on a vertex far from the origin, within
\* one cell of an axis through it: from FarCoord cells away, one cell off an
\* axis is less than half a degree off it.
FarCells ==
    {axial(q, r) : q \in {-FarCoord, FarCoord}, r \in -1..1}
        \cup {axial(q, r) : q \in -1..1, r \in {-FarCoord, FarCoord}}
        \cup {axial(q, -q + e) : q \in {-FarCoord, FarCoord}, e \in -1..1}

FarVertexes == {vertex(c.q, c.r, sp) : c \in FarCells, sp \in VertexSpin}

InitFar ==
    /\ orientation = PointyTop
    /\ hex_size = FromInt(DefaultHexSize)
    /\ va \in Vertexes
    /\ vb \in FarVertexes
    /\ ret = [self |-> None, other |-> None]
    /\ IdleDirection
    /\ op = "new"
    /\ IdleGrid
    /\ IdleShape
    /\ IdleWorld

\* va.adjacent_hexes() and vb.adjacent_hexes()
AdjacentHexes ==
    /\ ret' = [self |-> adjacent_hexes(va), other |-> adjacent_hexes(vb)]
    /\ op' = "adjacent_hexes"
    /\ UNCHANGED <<va, vb, directionVars, gridVars, shapeVars, worldVars>>

\* va.adjacent_vertices() and vb.adjacent_vertices()
AdjacentVertices ==
    /\ ret' = [self |-> adjacent_vertices(va), other |-> adjacent_vertices(vb)]
    /\ op' = "adjacent_vertices"
    /\ UNCHANGED <<va, vb, directionVars, gridVars, shapeVars, worldVars>>

\* va.adjacent_edges() and vb.adjacent_edges()
AdjacentEdges ==
    /\ ret' = [self |-> adjacent_edges(va), other |-> adjacent_edges(vb)]
    /\ op' = "adjacent_edges"
    /\ UNCHANGED <<va, vb, directionVars, gridVars, shapeVars, worldVars>>

\* va.distance(vb) and vb.distance(va)
Distance ==
    /\ ret' = [self |-> distance(va, vb), other |-> distance(vb, va)]
    /\ op' = "distance"
    /\ UNCHANGED <<va, vb, directionVars, gridVars, shapeVars, worldVars>>

NextVertex == AdjacentHexes \/ AdjacentVertices \/ AdjacentEdges \/ Distance

SpecVertex == InitVertex /\ [][NextVertex]_vars

SpecFar == InitFar /\ [][NextVertex]_vars

(***************************************************************************)
(* SpecDirection: VertexDirection::from(value), then i32::from of the      *)
(* direction it returned.                                                  *)
(***************************************************************************)
I32Values == (-MaxIndex..MaxIndex) \cup {I32_MIN, I32_MAX}

InitDirection ==
    /\ orientation = PointyTop
    /\ hex_size = FromInt(DefaultHexSize)
    /\ index \in I32Values
    /\ vd = VertexDirection[1]
    /\ num = 0
    /\ op = "new"
    /\ va = vertex(0, 0, Up)
    /\ vb = vertex(0, 0, Up)
    /\ ret = [self |-> None, other |-> None]
    /\ IdleGrid
    /\ IdleShape
    /\ IdleWorld

\* VertexDirection::from(value)
FromI32 ==
    /\ vd' = VertexDirection_from(index)
    /\ op' = "VertexDirection::from"
    /\ UNCHANGED <<index, num, va, vb, ret, gridVars, shapeVars, worldVars>>

\* i32::from(vd); a panicked conversion returned no direction to convert
FromVertexDirection ==
    /\ op = "VertexDirection::from"
    /\ vd # Unreachable
    /\ num' = i32_from(vd)
    /\ op' = "i32::from"
    /\ UNCHANGED <<index, vd, va, vb, ret, gridVars, shapeVars, worldVars>>

NextDirection == FromI32 \/ FromVertexDirection

SpecDirection == InitDirection /\ [][NextDirection]_vars

(***************************************************************************)
(* Properties.                                                             *)
(***************************************************************************)
Distinct3(t) == Len(t) = 3 /\ t[1] # t[2] /\ t[1] # t[3] /\ t[2] # t[3]

\* C1: world_to_hex(hex_to_world(c)) = c for every cell c, in both
\* orientations and at every cell size.
C1_RoundTrip == op = "world_to_hex" => back = coord

C1_Witness ==
    /\ op = "world_to_hex"
    /\ orientation = FlatTop
    /\ hex_size = Rat(1, 2)
    /\ coord = axial(2, -3)
    /\ back = coord

\* C2: a.distance(b) is the number of steps of a shortest path from a to b
\* in the graph of adjacent_vertices().
C2_DistanceIsShortestPath == op = "distance" => ret.self = ShortestPath(va, vb)

\* the slot whose write to its coordinate comes last in array order
LastWriter(s, sh) ==
    LET same == {k \in DOMAIN SlotOrder :
                    /\ sh.hexes[SlotOrder[k]] # None
                    /\ SlotCoord(SlotOrder[k], sh.transform) = SlotCoord(s, sh.transform)}
    IN  SlotOrder[CHOOSE k \in same : \A j \in same : j <= k]

\* C3: after apply_shape the grid holds, at the transformed coordinate of
\* every populated slot, that slot's payload (the last such slot's, when
\* several share the coordinate), whatever the grid held there before.
C3_ApplyWrites ==
    op = "apply_shape" =>
        \A s \in Populated(pre.shape.hexes) :
            /\ SlotCoord(s, pre.shape.transform) \in DOMAIN tiles
            /\ Some(tiles[SlotCoord(s, pre.shape.transform)])
                   = pre.shape.hexes[LastWriter(s, pre.shape)]

C3_Witness ==
    /\ op = "apply_shape"
    /\ shape.transform = transform(1, 1, 3)
    /\ \E s \in Populated(shape.hexes) :
          /\ SlotCoord(s, shape.transform) \in DOMAIN pre.grid.tiles
          /\ Some(pre.grid.tiles[SlotCoord(s, shape.transform)]) # shape.hexes[s]
          /\ Some(tiles[SlotCoord(s, shape.transform)]) = shape.hexes[s]

\* the coordinates apply_shape writes for shape sh
Written(sh) == {SlotCoord(s, sh.transform) : s \in Populated(sh.hexes)}

\* C4: apply_shape removes no key, leaves every entry off the transformed
\* coordinates of the populated slots as it was, and changes neither the
\* vertex map, the edge map, the orientation, the cell size nor the shape.
C4_ApplyFrame ==
    op = "apply_shape" =>
        /\ DOMAIN pre.grid.tiles \subseteq DOMAIN tiles
        /\ \A c \in DOMAIN tiles \ Written(pre.shape) :
              c \in DOMAIN pre.grid.tiles /\ tiles[c] = pre.grid.tiles[c]
        /\ vertices = pre.grid.vertices
        /\ edges = pre.grid.edges
        /\ orientation = pre.grid.orientation
        /\ hex_size = pre.grid.hex_size
        /\ shape = pre.shape

C4_Witness ==
    /\ op = "apply_shape"
    /\ Written(pre.shape) # {}
    /\ \E s \in Slots :
          /\ pre.shape.hexes[s] = None
          /\ SlotCoord(s, pre.shape.transform) \in DOMAIN pre.grid.tiles
          /\ SlotCoord(s, pre.shape.transform) \in DOMAIN tiles
    /\ \E c \in DOMAIN pre.grid.tiles \ Written(pre.shape) :
          tiles[c] = pre.grid.tiles[c]

\* C5: after extract_shape every slot that was populated holds the grid's
\* value at its transformed coordinate, or nothing when the grid has none.
C5_ExtractReads ==
    op = "extract_shape" =>
        \A s \in Populated(pre.shape.hexes) :
            LET c == SlotCoord(s, pre.shape.transform)
            IN  IF c \in DOMAIN tiles
                THEN shape.hexes[s] = Some(tiles[c])
                ELSE shape.hexes[s] = None

C5_Witness ==
    /\ op = "extract_shape"
    /\ \E s \in Populated(pre.shape.hexes) :
          /\ shape.hexes[s] # None
          /\ shape.hexes[s] # pre.shape.hexes[s]
    /\ \E s \in Populated(pre.shape.hexes) :
          /\ SlotCoord(s, pre.shape.transform) \notin DOMAIN tiles
          /\ shape.hexes[s] = None

\* C6: extract_shape leaves empty slots empty, the shape's transform and
\* dimensions and the whole grid as they were; and a slot the constructor
\* left empty is empty after any sequence of apply_shape and extract_shape.
C6_ExtractFrame ==
    /\ op = "extract_shape" =>
          /\ \A s \in Slots : pre.shape.hexes[s] = None => shape.hexes[s] = None
          /\ DOMAIN shape.hexes = DOMAIN pre.shape.hexes
          /\ shape.transform = pre.shape.transform
          /\ Grid = pre.grid
    /\ \A s \in Slots : made[s] = None => shape.hexes[s] = None

C6_Witness ==
    /\ op = "extract_shape"
    /\ calls = 2
    /\ \E s \in Slots :
          /\ made[s] = None
          /\ shape.hexes[s] = None
          /\ SlotCoord(s, shape.transform) \in DOMAIN tiles
    /\ \E s \in Slots : shape.hexes[s] # None /\ shape.hexes[s] # pre.shape.hexes[s]

\* the transform sends distinct slots to distinct coordinates
InjectiveOnSlots(t) ==
    \A s1 \in Slots, s2 \in Slots : SlotCoord(s1, t) = SlotCoord(s2, t) => s1 = s2

\* C7: when extract_shape is called on a shape with the populated slots and
\* the transform of the shape last applied, and the grid has not changed
\* since, every populated slot comes back as the applied shape's payload.
C7_ApplyThenExtract ==
    ( /\ op = "extract_shape"
      /\ applied # None
      /\ Populated(pre.shape.hexes) = Populated(applied[1].hexes)
      /\ pre.shape.transform = applied[1].transform
      /\ InjectiveOnSlots(applied[1].transform) )
        => \A s \in Populated(pre.shape.hexes) : shape.hexes[s] = applied[1].hexes[s]

C7_Witness ==
    /\ op = "extract_shape"
    /\ applied # None
    /\ shape.transform = transform(0, 0, 1)
    /\ Populated(pre.shape.hexes) = Populated(applied[1].hexes)
    /\ Cardinality(Populated(pre.shape.hexes)) >= 2
    /\ \E s \in Populated(pre.shape.hexes) : pre.shape.hexes[s] # applied[1].hexes[s]
    /\ shape.hexes = applied[1].hexes

\* C8: adjacent_hexes returns three distinct cells at offsets fixed by the
\* spin: Up (0,0), (0,-1), (+1,-1); Down (0,0), (0,+1), (-1,+1).
C8_AdjacentHexes ==
    op = "adjacent_hexes" =>
        /\ Distinct3(ret.self)
        /\ <<ret.self[1].q - va.q, ret.self[1].r - va.r>> = <<0, 0>>
        /\ <<ret.self[2].q - va.q, ret.self[2].r - va.r>>
               = IF va.spin = Up THEN <<0, -1>> ELSE <<0, 1>>
        /\ <<ret.self[3].q - va.q, ret.self[3].r - va.r>>
               = IF va.spin = Up THEN <<1, -1>> ELSE <<-1, 1>>

C8_Witness ==
    /\ op = "adjacent_hexes"
    /\ va = vertex(1, -2, Down)
    /\ ret.self = <<axial(1, -2), axial(1, -1), axial(0, -1)>>

\* C9: adjacent_vertices returns three distinct vertices of the opposite
\* spin at fixed offsets: Up (+1,-1), (0,-1), (+1,-2); Down (0,+1), (-1,+2),
\* (-1,+1).
C9_AdjacentVertices ==
    op = "adjacent_vertices" =>
        /\ Distinct3(ret.self)
        /\ \A i \in 1..3 : ret.self[i].spin \in VertexSpin \ {va.spin}
        /\ <<ret.self[1].q - va.q, ret.self[1].r - va.r>>
               = IF va.spin = Up THEN <<1, -1>> ELSE <<0, 1>>
        /\ <<ret.self[2].q - va.q, ret.self[2].r - va.r>>
               = IF va.spin = Up THEN <<0, -1>> ELSE <<-1, 2>>
        /\ <<ret.self[3].q - va.q, ret.self[3].r - va.r>>
               = IF va.spin = Up THEN <<1, -2>> ELSE <<-1, 1>>

C9_Witness ==
    /\ op = "adjacent_vertices"
    /\ va = vertex(-1, 2, Up)
    /\ ret.self = <<vertex(0, 1, Down), vertex(-1, 1, Down), vertex(0, 0, Down)>>

\* C10: adjacent_edges returns three distinct edges in canonical directions;
\* a vertex and an adjacent vertex share exactly one edge, and two distinct
\* vertices that are not adjacent share none.
C10_CanonicalEdges ==
    op = "adjacent_edges" =>
        /\ Distinct3(ret.self)
        /\ \A i \in 1..3 : ret.self[i].dir \in EdgeDirection
        /\ vb \in Range(adjacent_vertices(va)) =>
              Cardinality(Range(ret.self) \cap Range(ret.other)) = 1
        /\ (va # vb /\ vb \notin Range(adjacent_vertices(va))) =>
              Range(ret.self) \cap Range(ret.other) = {}

C10_Witness ==
    /\ op = "adjacent_edges"
    /\ va = vertex(0, 0, Up)
    /\ vb = vertex(1, -2, Down)
    /\ Range(ret.self) \cap Range(ret.other) = {edge(1, -1, West)}

\* C11: v.distance(v) = 0 for every vertex v, and two vertices of the same
\* cell with opposite spins are at distance exactly 3, in both orders.
C11_SameCell ==
    (op = "distance" /\ va.q = vb.q /\ va.r = vb.r) =>
        /\ va.spin = vb.spin => ret.self = 0 /\ ret.other = 0
        /\ va.spin # vb.spin => ret.self = 3 /\ ret.other = 3

C11_Witness ==
    /\ op = "distance"
    /\ va = vertex(1, -1, Down)
    /\ vb = vertex(1, -1, Up)
    /\ ret = [self |-> 3, other |-> 3]

\* x < y in Q(sqrt 3)
Less(x, y) == LET z == Sub(x, y) IN ~LeqRoot3(-z.a, z.b)

\* the squared distance from world point p to the centre of cell c, in
\* units of the cell size
Dist2(o, size, p, c) ==
    LET centre == hex_to_world(o, size, c)
        dx == Div(Sub(p[1], centre[1]), size)
        dy == Div(Sub(p[2], centre[2]), size)
    IN  Add(Mul(dx, dx), Mul(dy, dy))

\* p is strictly closer to the centre of c than to the centre of any other
\* cell (the cells one step from c in q and r, its six neighbours among
\* them, decide it)
StrictlyNearest(o, size, p, c) ==
    \A i \in -1..1, j \in -1..1 :
        <<i, j>> # <<0, 0>> =>
            Less(Dist2(o, size, p, c), Dist2(o, size, p, axial(c.q + i, c.r + j)))

\* C12: in both orientations and at every cell size, world_to_hex maps
\* every world point that is strictly closer to the centre of a cell c than
\* to the centre of any other cell to c.
C12_NearestTile ==
    (op = "world_to_hex" /\ StrictlyNearest(orientation, hex_size, world, coord))
        => back = coord

C12_Witness ==
    /\ op = "world_to_hex"
    /\ orientation = FlatTop
    /\ hex_size = FromInt(10)
    /\ coord = axial(1, -1)
    /\ world = PointAt(orientation, hex_size, coord, <<Mesh - 1, Mesh>>)
    /\ StrictlyNearest(orientation, hex_size, world, coord)
    /\ back = coord

\* C13: hex_to_world returns, for PointyTop, x = size * (sqrt 3 * q +
\* sqrt 3 / 2 * r) and y = size * 3/2 * r, and for FlatTop x = size * 3/2 * q
\* and y = size * (sqrt 3 / 2 * q + sqrt 3 * r); so (0,0) goes to (0,0), and
\* at size 10 PointyTop (0,-15) to (-75 sqrt 3, -225) and (15,0) to
\* (150 sqrt 3, 0).
C13_ClosedForm ==
    op = "hex_to_world" =>
        /\ orientation = PointyTop =>
              world = <<Mul(hex_size, Num(0, 2 * coord.q + coord.r, 2)),
                        Mul(hex_size, Rat(3 * coord.r, 2))>>
        /\ orientation = FlatTop =>
              world = <<Mul(hex_size, Rat(3 * coord.q, 2)),
                        Mul(hex_size, Num(0, coord.q + 2 * coord.r, 2))>>
        /\ coord = axial(0, 0) => world = <<FromInt(0), FromInt(0)>>
        /\ (orientation = PointyTop /\ hex_size = FromInt(10)) =>
              /\ coord = axial(0, -15) => world = <<Num(0, -75, 1), FromInt(-225)>>
              /\ coord = axial(15, 0) => world = <<Num(0, 150, 1), FromInt(0)>>

C13_Witness ==
    /\ op = "hex_to_world"
    /\ orientation = PointyTop
    /\ hex_size = FromInt(10)
    /\ coord = axial(0, -15)
    /\ world = <<Num(0, -75, 1), FromInt(-225)>>

\* C14: VertexDirection::from(i) never reaches the unreachable arm and is
\* the direction of index i modulo 6 (Euclidean), so i32::from of it is
\* i rem_euclid 6, and VertexDirection::from(i32::from(d)) = d.
C14_FromI32Total ==
    /\ op = "VertexDirection::from" =>
          /\ vd # Unreachable
          /\ vd = VertexDirection[(index % 6) + 1]
    /\ op = "i32::from" =>
          /\ num = index % 6
          /\ VertexDirection_from(num) = vd
          /\ \A i \in DOMAIN VertexDirection :
                VertexDirection_from(i32_from(VertexDirection[i])) = VertexDirection[i]

C14_Witness ==
    /\ op = "i32::from"
    /\ index = -7
    /\ vd = "UpLeft"
    /\ num = 5

\* C19: extract_shape followed by apply_shape of the same shape leaves the
\* grid's tiles as they were before the two calls, keys and values; and a
\* second extract_shape straight after the first leaves the shape unchanged.
C19_ExtractThenApply ==
    /\ (op = "apply_shape" /\ prior.op = "extract_shape") => tiles = prior.tiles
    /\ (op = "extract_shape" /\ prior.op = "extract_shape") => shape = pre.shape

C19_Witness ==
    /\ op = "apply_shape"
    /\ prior.op = "extract_shape"
    /\ \E s \in Slots : shape.hexes[s] # None /\ shape.hexes[s] # made[s]
    /\ \E s \in Slots : made[s] # None /\ shape.hexes[s] = None
    /\ tiles = prior.tiles
    /\ tiles # EmptyMap

\* the two cells lie on a common axis
OnCommonAxis(a, b) == a.q = b.q \/ a.r = b.r \/ a.q + a.r = b.q + b.r

\* C15: on different cells distance is 2d + delta, with delta read from the
\* on-axis rows exactly when the two cells lie on a common axis and from the
\* off-axis rows for every other direction, however close to an axis.
C15_OnAxisExactly ==
    (op = "distance" /\ (va.q # vb.q \/ va.r # vb.r)) =>
        LET a == axial(va.q, va.r)
            b == axial(vb.q, vb.r)
            parity == IF va.spin = vb.spin THEN 1
                      ELSE IF va.spin = Up THEN 2 ELSE 3
            rows == IF OnCommonAxis(a, b) THEN 1 ELSE 2
            sector == (direction(a, b).sixth % 6) + 1
        IN  ret.self = 2 * axial_distance(a, b)
                           + PARITY_ADJUSTMENTS[rows][parity][sector]

\* C16: every vertex w of v.adjacent_vertices() is at distance 1 from v, in
\* both orders, the neighbour two cells away included.
C16_AdjacentAtDistanceOne ==
    (op = "distance" /\ vb \in Range(adjacent_vertices(va))) =>
        ret.self = 1 /\ ret.other = 1

\* C17: for every w in v.adjacent_vertices(), v is in w.adjacent_vertices(),
\* and v.adjacent_hexes() and w.adjacent_hexes() have exactly two cells in
\* common.
C17_AdjacencySymmetric ==
    (op = "adjacent_vertices" /\ vb \in Range(ret.self)) =>
        /\ va \in Range(ret.other)
        /\ Cardinality(Range(adjacent_hexes(va)) \cap Range(adjacent_hexes(vb))) = 2

C17_Witness ==
    /\ op = "adjacent_vertices"
    /\ va = vertex(0, 0, Up)
    /\ vb = vertex(1, -2, Down)
    /\ vb = ret.self[3]
    /\ va = ret.other[2]
    /\ Range(adjacent_hexes(va)) \cap Range(adjacent_hexes(vb))
           = {axial(0, -1), axial(1, -1)}

\* C18: a.distance(b) = b.distance(a) for all vertices a and b.
C18_DistanceSymmetric == op = "distance" => ret.self = ret.other

C18_Witness ==
    /\ op = "distance"
    /\ va = vertex(0, 0, Up)
    /\ vb = vertex(-2, 1, Down)
    /\ ret.self = ret.other
    /\ ret.self # 2 * axial_distance(axial(0, 0), axial(-2, 1))

====
